---- MODULE Spec2Model ----
(***************************************************************************)
(* Model of the request-handling surface of app.py: the two pure helpers   *)
(* (format_duration, get_quality_format_string), the option builder, the   *)
(* /api/info handler and the /api/download handler running against the     *)
(* external extractor (yt_dlp) and the shared download directory.          *)
(*                                                                         *)
(* Text that the code inspects character by character (quality labels,     *)
(* file paths, formatted numbers) is a sequence of one-character strings;  *)
(* Str turns such a sequence into a TLA+ string.                           *)
(***************************************************************************)
EXTENDS Integers, Sequences, FiniteSets, TLC

VARIABLES call, req, fs, clock

vars == <<call, req, fs, clock>>

(***************************************************************************)
(* Bounds of the model.                                                    *)
(***************************************************************************)
\* largest duration, in seconds, handed to format_duration
MaxDuration == 3700
\* how many 'p' characters are inserted into a base text to make a quality label
MaxInsert == 2
\* the last second the clock reaches
MaxClock == 2

(***************************************************************************)
(* Program constants (app.py lines 14-24).                                 *)
(***************************************************************************)
DOWNLOAD_DIR == <<"d", "o", "w", "n", "l", "o", "a", "d", "s">>
DEFAULT_QUALITY == <<"1", "0", "8", "0", "p">>
HTTP_OK == 200
HTTP_BAD_REQUEST == 400
HTTP_INTERNAL_SERVER_ERROR == 500
ERR_URL_REQUIRED == "URL is required"
ERR_FETCH_INFO == "Could not fetch video info. Please check the URL."
ERR_FILE_NOT_FOUND == "File not found after download"

(***************************************************************************)
(* Text helpers.                                                           *)
(***************************************************************************)
RECURSIVE Str(_)
Str(s) == IF s = << >> THEN "" ELSE Head(s) \o Str(Tail(s))

DigitChars == <<"0", "1", "2", "3", "4", "5", "6", "7", "8", "9">>

\* the decimal digits of a natural number, as Python's str(int) writes them
RECURSIVE Digits(_)
Digits(n) == IF n < 10 THEN <<DigitChars[n + 1]>>
             ELSE Digits(n \div 10) \o <<DigitChars[(n % 10) + 1]>>

\* the format specification 02d: at least two digits, padded with zeros
ZeroPad2(n) == IF n < 10 THEN <<"0">> \o Digits(n) ELSE Digits(n)

\* str.replace(old, '') for a one-character old: every occurrence is removed
StrRemoveAll(s, ch) == SelectSeq(s, LAMBDA c : c # ch)

(***************************************************************************)
(* Python values whose type the code tests.                                *)
(***************************************************************************)
PyNone == [t |-> "NoneType", v |-> ""]
PyText(s) == [t |-> "str", v |-> s]
PyInt(n) == [t |-> "int", v |-> n]

\* the truth value Python gives a value in `not url`
Truthy(x) == CASE x.t = "NoneType" -> FALSE
               [] x.t = "str" -> x.v # ""
               [] x.t = "int" -> x.v # 0

\* dict.get(key, default) on a dict modelled as a function
DictGet(d, key, default) == IF key \in DOMAIN d THEN d[key] ELSE default

(***************************************************************************)
(* format_duration (app.py 34-49).                                         *)
(***************************************************************************)
\* a variant that does not pad the seconds
format_duration_unpadded(duration_seconds) ==
    IF duration_seconds.t \notin {"int", "float"}
    THEN <<"N", "o", "n", "e">>
    ELSE Digits(duration_seconds.v \div 60) \o <<":">> \o Digits(duration_seconds.v % 60)

format_duration(duration_seconds) ==
    IF duration_seconds.t \notin {"int", "float"}
    THEN \* str(duration_seconds); the only non-number that reaches here is None
         <<"N", "o", "n", "e">>
    ELSE LET minutes == duration_seconds.v \div 60
             seconds == duration_seconds.v % 60
         IN  Digits(minutes) \o <<":">> \o ZeroPad2(seconds)

(***************************************************************************)
(* get_quality_format_string (app.py 79-92).                               *)
(***************************************************************************)
Heights == {<<"1", "0", "8", "0">>, <<"7", "2", "0">>, <<"4", "8", "0">>, <<"3", "6", "0">>}

CappedFormat(height) ==
    "bestvideo[height<=" \o Str(height) \o "]+bestaudio/best[height<=" \o Str(height) \o "]"

get_quality_format_string(quality) ==
    LET height == StrRemoveAll(quality, "p")
    IN  IF height \in Heights THEN CappedFormat(height) ELSE "best"

(***************************************************************************)
(* Inputs of the pure-function specifications.                             *)
(***************************************************************************)
LabelBases == Heights \cup {<< >>, <<"4", "k">>, <<"1", "0", "8", "0", "P">>,
                            <<"2", "4", "0">>, <<"1", "0", "8">>}

InsertP(s) == {SubSeq(s, 1, i) \o <<"p">> \o SubSeq(s, i + 1, Len(s)) : i \in 0..Len(s)}

RECURSIVE WithInserted(_, _)
WithInserted(S, n) == IF n = 0 THEN S
                      ELSE S \cup WithInserted(UNION {InsertP(s) : s \in S}, n - 1)

QualityLabels == WithInserted(LabelBases, MaxInsert)

IdleCall == [fn |-> "none", arg |-> << >>, ret |-> << >>, pc |-> "idle"]

(***************************************************************************)
(* The requests, the extractor's possible answers and the responses.       *)
(***************************************************************************)
\* the request slots: two requests can be in flight together
Requests == {"r1", "r2"}

UrlTexts == {"", "u"}
QualitySamples == {<<"7", "2", "0", "p">>, <<"4", "k">>}
OtherTexts == {"x"}

\* what the extractor can raise, and what send_file can raise
ExtractorErrors == {[class |-> "DownloadError", msg |-> "ERROR: e1"],
                    [class |-> "ExtractorError", msg |-> "ERROR: e2"]}
FileErrors == {[class |-> "PermissionError", msg |-> "Permission denied"]}
IndexError == [class |-> "IndexError", msg |-> "list index out of range"]
AttributeError == [class |-> "AttributeError", msg |-> "object has no attribute 'get'"]
NoException == [class |-> "none", msg |-> ""]

\* str(error) of an exception: its message
ExcStr(exc) == exc.msg

\* metadata the extractor may return on the info path
InfoKeys == {"title", "thumbnail", "duration", "uploader", "webpage_url"}
InfoTexts == [title |-> "T", thumbnail |-> "http://thumb", duration |-> "",
              uploader |-> "A", webpage_url |-> "http://canonical"]
DurationSamples == {59, 330}

\* what the extractor resolves the placeholders of the template to
Titles == {<<"a">>, <<"a", "_", "1">>}
Exts == {<<"m", "p", "4">>, <<"m", "k", "v">>}
MP4 == <<"m", "p", "4">>

\* what one extractor call did: its result, the path it filled the template to
\* and whether it left a file there
NoOutcome == [status |-> "none", exc |-> NoException, info |-> << >>, target |-> "",
              wrote |-> FALSE]
NoResp == [kind |-> "none", status |-> 0, error |-> "", data |-> << >>, file |-> ""]

\* jsonify({'error': text}), status
JsonError(status, text) ==
    [kind |-> "error", status |-> status, error |-> text, data |-> << >>, file |-> ""]
\* jsonify(video_data): Flask's default status
JsonOk(data) ==
    [kind |-> "json", status |-> HTTP_OK, error |-> "", data |-> data, file |-> ""]
\* send_file(filename, as_attachment=True)
FileAttachment(path) ==
    [kind |-> "file", status |-> HTTP_OK, error |-> "", data |-> << >>, file |-> path]
\* an exception that leaves the handler
Propagated(exc) ==
    [kind |-> "exception", status |-> 0, error |-> ExcStr(exc), data |-> << >>, file |-> ""]

IdleReq == [kind |-> "none", pc |-> "idle", request |-> << >>, url |-> PyNone,
            quality |-> << >>, timestamp |-> 0, opts |-> << >>, invoked |-> FALSE,
            ydl |-> NoOutcome, filename |-> "", resp |-> NoResp]

(***************************************************************************)
(* get_ydl_opts (app.py 52-76).                                            *)
(***************************************************************************)
get_ydl_opts(download, output_template) ==
    IF download
    THEN [quiet |-> FALSE, no_warnings |-> TRUE,
          format |-> "bestvideo[height<=1080]+bestaudio/best[height<=1080]",
          outtmpl |-> output_template, merge_output_format |-> "mp4"]
    ELSE [quiet |-> TRUE, no_warnings |-> TRUE]

(***************************************************************************)
(* The output template (app.py 152) and the extractor's filling of it.     *)
(***************************************************************************)
\* a template that leaves the timestamp out
OutputTemplateNoTimestamp(timestamp) ==
    DOWNLOAD_DIR \o <<"/", "%(title)s", ".", "%(ext)s">>

\* os.path.join(DOWNLOAD_DIR, f'%(title)s_{timestamp}.%(ext)s')
OutputTemplate(timestamp) ==
    DOWNLOAD_DIR \o <<"/", "%(title)s", "_">> \o Digits(timestamp) \o <<".", "%(ext)s">>

\* the extractor's substitution of the placeholders (ydl.prepare_filename)
RECURSIVE FillTemplate(_, _, _)
FillTemplate(tmpl, title, ext) ==
    IF tmpl = << >> THEN << >>
    ELSE (CASE Head(tmpl) = "%(title)s" -> title
            [] Head(tmpl) = "%(ext)s" -> ext
            [] OTHER -> <<Head(tmpl)>>) \o FillTemplate(Tail(tmpl), title, ext)

(***************************************************************************)
(* os.path.splitext and the extension rewrite (app.py 168-170).            *)
(***************************************************************************)
\* index of the last occurrence of ch in s, 0 when there is none
LastIndex(s, ch) == LET I == {i \in 1..Len(s) : s[i] = ch}
                    IN  IF I = {} THEN 0 ELSE CHOOSE i \in I : \A j \in I : j <= i

\* os.path.splitext: the extension starts at the last dot of the last path
\* component, unless that component has only dots before it
SplitExt(p) ==
    LET sep == LastIndex(p, "/")
        dot == LastIndex(p, ".")
    IN  IF dot > sep /\ \E i \in (sep + 1)..(dot - 1) : p[i] # "."
        THEN <<SubSeq(p, 1, dot - 1), SubSeq(p, dot, Len(p))>>
        ELSE <<p, << >> >>

\* a rewrite that keeps whatever extension the derived name has
NormalizeExtKeep(filename) == filename

\* base + '.mp4' unless the extension is already '.mp4'
NormalizeExt(filename) ==
    LET parts == SplitExt(filename)
    IN  IF parts[2] # <<".">> \o MP4 THEN parts[1] \o <<".">> \o MP4 ELSE filename

(***************************************************************************)
(* The download directory: the files in it and the request that wrote each.*)
(***************************************************************************)
PathExists(files, path) == \E f \in files : f.path = path
WriteFile(files, path, r) == {f \in files : f.path # path} \cup {[path |-> path, by |-> r]}

(***************************************************************************)
(* /api/info: get_video_info (app.py 101-131).                             *)
(***************************************************************************)
\* the projection of the extractor's result (app.py 120-126)
VideoData(info, url) ==
    [title |-> DictGet(info, "title", PyText("Unknown Title")).v,
     thumbnail |-> DictGet(info, "thumbnail", PyText("")).v,
     duration |-> Str(format_duration(DictGet(info, "duration", PyNone))),
     author |-> DictGet(info, "uploader", PyText("Unknown Author")).v,
     webpage_url |-> DictGet(info, "webpage_url", url).v]

\* an except clause that hands the error text to the client
InfoExceptLeaks(error) == JsonError(HTTP_BAD_REQUEST, ExcStr(error))

\* the except clause of get_video_info (app.py 129-131)
InfoExcept(error) == JsonError(HTTP_BAD_REQUEST, ERR_FETCH_INFO)

\* request.get_json(), data.get('url'), the validation and get_ydl_opts
\* (app.py 109-116); the body is JSON null, a JSON list or a JSON object
InfoReceive(r) ==
    /\ req[r].pc = "idle"
    /\ \E t \in {"null", "list", "dict"}, hasUrl \in BOOLEAN, u \in UrlTexts,
          hasOther \in BOOLEAN, o \in OtherTexts :
          LET data == IF t # "dict" THEN << >>
                      ELSE (IF hasUrl THEN "url" :> PyText(u) ELSE << >>)
                           @@ (IF hasOther THEN "other" :> PyText(o) ELSE << >>)
              body == [t |-> t, v |-> data]
              url == DictGet(data, "url", PyNone)
              base == [req[r] EXCEPT !.kind = "info", !.request = body]
          IN  req' = [req EXCEPT ![r] =
                  IF t # "dict"
                  THEN \* data.get on None or on a list: AttributeError, outside the try
                       [base EXCEPT !.pc = "done", !.resp = Propagated(AttributeError)]
                  ELSE IF ~Truthy(url)
                  THEN [base EXCEPT !.pc = "done", !.url = url,
                            !.resp = JsonError(HTTP_BAD_REQUEST, ERR_URL_REQUIRED)]
                  ELSE [base EXCEPT !.pc = "extracting", !.url = url,
                            !.opts = get_ydl_opts(FALSE, << >>)]]
    /\ UNCHANGED <<call, fs, clock>>

\* ydl.extract_info(url, download=False) and what follows it (app.py 117-131)
InfoExtract(r) ==
    /\ req[r].pc = "extracting"
    /\ req[r].kind = "info"
    /\ \/ \E exc \in ExtractorErrors :
            req' = [req EXCEPT ![r] =
                [@ EXCEPT !.pc = "done", !.invoked = TRUE,
                          !.ydl = [NoOutcome EXCEPT !.status = "error", !.exc = exc],
                          !.resp = InfoExcept(exc)]]
       \/ \E K \in SUBSET InfoKeys, d \in DurationSamples :
            LET info == [k \in K |-> IF k = "duration" THEN PyInt(d)
                                     ELSE PyText(InfoTexts[k])]
            IN  req' = [req EXCEPT ![r] =
                    [@ EXCEPT !.pc = "done", !.invoked = TRUE,
                              !.ydl = [NoOutcome EXCEPT !.status = "ok", !.info = info],
                              !.resp = JsonOk(VideoData(info, req[r].url))]]
    /\ UNCHANGED <<call, fs, clock>>

(***************************************************************************)
(* /api/download: download_video (app.py 134-182).                         *)
(***************************************************************************)
\* the except clause of download_video (app.py 180-182)
DownloadExcept(error) == JsonError(HTTP_INTERNAL_SERVER_ERROR, ExcStr(error))

\* the resolution of the produced file's name (app.py 163-170)
ResolveFilename(info, outtmpl) ==
    IF info.has_rd
    THEN IF Len(info.requested_downloads) = 0
         THEN [raised |-> TRUE, exc |-> IndexError, filename |-> << >>]
         ELSE [raised |-> FALSE, exc |-> NoException,
               filename |-> info.requested_downloads[1].filepath]
    ELSE [raised |-> FALSE, exc |-> NoException,
          filename |-> NormalizeExt(FillTemplate(outtmpl, info.title, info.ext))]

\* request.args.get, the validation, the timestamp and the options
\* (app.py 143-156)
DownloadReceive(r) ==
    /\ req[r].pc = "idle"
    /\ \E hasUrl \in BOOLEAN, u \in UrlTexts, hasQ \in BOOLEAN, q \in QualitySamples :
          LET args == (IF hasUrl THEN "url" :> PyText(u) ELSE << >>)
                      @@ (IF hasQ THEN "quality" :> PyText(q) ELSE << >>)
              url == DictGet(args, "url", PyNone)
              quality == DictGet(args, "quality", PyText(DEFAULT_QUALITY)).v
              timestamp == clock
              output_template == OutputTemplate(timestamp)
              opts == [get_ydl_opts(TRUE, output_template)
                          EXCEPT !.format = get_quality_format_string(quality)]
              base == [req[r] EXCEPT !.kind = "download", !.request = args,
                                     !.url = url, !.quality = quality]
          IN  req' = [req EXCEPT ![r] =
                  IF ~Truthy(url)
                  THEN [base EXCEPT !.pc = "done",
                            !.resp = JsonError(HTTP_BAD_REQUEST, ERR_URL_REQUIRED)]
                  ELSE [base EXCEPT !.pc = "extracting", !.timestamp = timestamp,
                            !.opts = opts]]
    /\ UNCHANGED <<call, fs, clock>>

\* ydl.extract_info(url, download=True) and the resolution of the file name
\* (app.py 159-170, 180-182).  The extractor either raises, or reports
\* success: it has filled the template with a title and an extension, may
\* have left a file at that path, and may report the path in
\* requested_downloads.
DownloadExtract(r) ==
    /\ req[r].pc = "extracting"
    /\ req[r].kind = "download"
    /\ \/ /\ \E exc \in ExtractorErrors :
                req' = [req EXCEPT ![r] =
                    [@ EXCEPT !.pc = "done", !.invoked = TRUE,
                              !.ydl = [NoOutcome EXCEPT !.status = "error", !.exc = exc],
                              !.resp = DownloadExcept(exc)]]
          /\ fs' = fs
       \/ \E title \in Titles, ext \in Exts, merged \in BOOLEAN, wrote \in BOOLEAN,
             rd \in {"absent", "empty", "one"} :
            LET outtmpl == req[r].opts.outtmpl
                target == FillTemplate(outtmpl, title, IF merged THEN MP4 ELSE ext)
                info == [title |-> title, ext |-> ext, has_rd |-> rd # "absent",
                         requested_downloads |->
                             IF rd = "one" THEN <<[filepath |-> target]>> ELSE << >>]
                res == ResolveFilename(info, outtmpl)
                after == [req[r] EXCEPT !.invoked = TRUE,
                             !.ydl = [NoOutcome EXCEPT !.status = "ok", !.info = info,
                                                       !.target = Str(target),
                                                       !.wrote = wrote]]
            IN  /\ fs' = IF wrote THEN WriteFile(fs, Str(target), r) ELSE fs
                /\ req' = [req EXCEPT ![r] =
                       IF res.raised
                       THEN [after EXCEPT !.pc = "done", !.resp = DownloadExcept(res.exc)]
                       ELSE [after EXCEPT !.pc = "resolved",
                                          !.filename = Str(res.filename)]]
    /\ UNCHANGED <<call, clock>>

\* a handler that sends the file without looking for it
DownloadCheckSkipped(r) ==
    /\ req[r].pc = "resolved"
    /\ req' = [req EXCEPT ![r] = [@ EXCEPT !.pc = "sending"]]
    /\ UNCHANGED <<call, fs, clock>>

\* if filename and os.path.exists(filename) ... else (app.py 172, 177-178)
DownloadCheck(r) ==
    /\ req[r].pc = "resolved"
    /\ LET exists == req[r].filename # "" /\ PathExists(fs, req[r].filename)
       IN  req' = [req EXCEPT ![r] =
               IF exists
               THEN [@ EXCEPT !.pc = "sending"]
               ELSE [@ EXCEPT !.pc = "done",
                         !.resp = JsonError(HTTP_INTERNAL_SERVER_ERROR, ERR_FILE_NOT_FOUND)]]
    /\ UNCHANGED <<call, fs, clock>>

\* send_file(filename, as_attachment=True) and its except (app.py 173-176)
DownloadSend(r) ==
    /\ req[r].pc = "sending"
    /\ \/ req' = [req EXCEPT ![r] =
              [@ EXCEPT !.pc = "done", !.resp = FileAttachment(req[r].filename)]]
       \/ \E file_error \in FileErrors :
            req' = [req EXCEPT ![r] =
                [@ EXCEPT !.pc = "done",
                          !.resp = JsonError(HTTP_INTERNAL_SERVER_ERROR, ExcStr(file_error))]]
    /\ UNCHANGED <<call, fs, clock>>

\* a second passes (time.time(), app.py 151)
Tick ==
    /\ clock < MaxClock
    /\ clock' = clock + 1
    /\ UNCHANGED <<call, req, fs>>

(***************************************************************************)
(* The server: requests of both kinds, handled concurrently.               *)
(***************************************************************************)
Init ==
    /\ call = IdleCall
    /\ req = [r \in Requests |-> IdleReq]
    /\ fs = {}
    /\ clock = 1

Next ==
    \/ Tick
    \/ \E r \in Requests : InfoReceive(r)
    \/ \E r \in Requests : InfoExtract(r)
    \/ \E r \in Requests : DownloadReceive(r)
    \/ \E r \in Requests : DownloadExtract(r)
    \/ \E r \in Requests : DownloadCheck(r)
    \/ \E r \in Requests : DownloadSend(r)

Spec == Init /\ [][Next]_vars

(***************************************************************************)
(* The pure helpers, each applied to every input of a bounded set.         *)
(***************************************************************************)
InitDuration ==
    /\ \E d \in 0..MaxDuration :
          call = [fn |-> "format_duration", arg |-> PyInt(d), ret |-> << >>, pc |-> "called"]
    /\ req = [r \in Requests |-> IdleReq]
    /\ fs = {}
    /\ clock = 1

ReturnDuration ==
    /\ call.fn = "format_duration"
    /\ call.pc = "called"
    /\ call' = [call EXCEPT !.ret = format_duration(call.arg), !.pc = "returned"]
    /\ UNCHANGED <<req, fs, clock>>

SpecDuration == InitDuration /\ [][ReturnDuration]_vars

InitQuality ==
    /\ \E q \in QualityLabels :
          call = [fn |-> "get_quality_format_string", arg |-> q, ret |-> "", pc |-> "called"]
    /\ req = [r \in Requests |-> IdleReq]
    /\ fs = {}
    /\ clock = 1

ReturnQuality ==
    /\ call.fn = "get_quality_format_string"
    /\ call.pc = "called"
    /\ call' = [call EXCEPT !.ret = get_quality_format_string(call.arg), !.pc = "returned"]
    /\ UNCHANGED <<req, fs, clock>>

SpecQuality == InitQuality /\ [][ReturnQuality]_vars

(***************************************************************************)
(* Properties.                                                             *)
(***************************************************************************)
Returned(fn) == call.fn = fn /\ call.pc = "returned"

\* the four quality labels the interface offers
OfferedLabels == {h \o <<"p">> : h \in Heights}

\* C1: get_quality_format_string returns the expression capped at H for each
\* of the labels "1080p", "720p", "480p", "360p" (H the label's height) and
\* the uncapped expression 'best' for every other label.
C1_FormatSelector ==
    Returned("get_quality_format_string") =>
        IF call.arg \in OfferedLabels
        THEN call.ret = CappedFormat(SubSeq(call.arg, 1, Len(call.arg) - 1))
        ELSE call.ret = "best"

DigitValue(c) == CHOOSE d \in 0..9 : DigitChars[d + 1] = c
IsDigits(s) == \A i \in 1..Len(s) : \E d \in 0..9 : DigitChars[d + 1] = s[i]

RECURSIVE ParseNat(_)
ParseNat(s) == IF s = << >> THEN 0
               ELSE ParseNat(SubSeq(s, 1, Len(s) - 1)) * 10 + DigitValue(s[Len(s)])

Done(r) == req[r].pc = "done"
IsInfo(r) == req[r].kind = "info"
IsDownload(r) == req[r].kind = "download"
ExtractorFailed(r) == req[r].ydl.status = "error"
ExtractorSucceeded(r) == req[r].ydl.status = "ok"

\* the request carries a non-empty url: in the JSON object of an info request,
\* in the query parameters of a download request
HasUrl(r) ==
    IF IsInfo(r)
    THEN /\ req[r].request.t = "dict"
         /\ "url" \in DOMAIN req[r].request.v
         /\ req[r].request.v["url"].v # ""
    ELSE /\ "url" \in DOMAIN req[r].request
         /\ req[r].request["url"].v # ""

\* C2: on both endpoints a request whose url is absent or empty is answered
\* 400 {"error": "URL is required"}, whatever else it carries, and the
\* extractor is not invoked for it.
C2_UrlRequired ==
    \A r \in Requests :
        (Done(r) /\ ~HasUrl(r)) =>
            /\ req[r].resp = JsonError(400, "URL is required")
            /\ ~req[r].invoked

\* C3: an extractor failure on the info path is answered 400 with the fixed
\* message and without the error's text; an extractor failure on the download
\* path is answered 500 with the error's text.
C3_ErrorExposure ==
    \A r \in Requests :
        ExtractorFailed(r) =>
            /\ Done(r)
            /\ IsInfo(r) =>
                  /\ req[r].resp =
                        JsonError(400, "Could not fetch video info. Please check the URL.")
                  /\ req[r].resp.error # req[r].ydl.exc.msg
            /\ IsDownload(r) =>
                  /\ req[r].resp.kind = "error"
                  /\ req[r].resp.status = 500
                  /\ req[r].resp.error = req[r].ydl.exc.msg

\* the extractor has failed in an info request and in a download request
C3_Witness ==
    \E r1, r2 \in Requests :
        /\ IsInfo(r1) /\ ExtractorFailed(r1) /\ Done(r1)
        /\ IsDownload(r2) /\ ExtractorFailed(r2) /\ Done(r2)
        /\ req[r1].ydl.exc = req[r2].ydl.exc

NotFoundResponse == JsonError(500, "File not found after download")

\* the step that leaves the resolved state tests the path in the directory
C4_ExistenceStep ==
    \A r \in Requests :
        (req[r].pc = "resolved" /\ req'[r].pc # "resolved") =>
            IF PathExists(fs, req[r].filename)
            THEN req'[r].pc = "sending"
            ELSE req'[r].pc = "done" /\ req'[r].resp = NotFoundResponse

\* what a download that has answered, or is about to send, rests on
C4_Outcome ==
    \A r \in Requests :
        /\ (IsDownload(r) /\ req[r].resp.kind = "file") =>
              /\ ExtractorSucceeded(r)
              /\ req[r].resp.file = req[r].filename
              /\ PathExists(fs, req[r].resp.file)
        /\ req[r].pc = "sending" => ExtractorSucceeded(r)
        /\ req[r].resp = NotFoundResponse => ExtractorSucceeded(r)
        /\ ExtractorFailed(r) => req[r].resp # NotFoundResponse

\* C4: after a reported success the request answers with the attachment only
\* if the resolved path exists at the existence check, and answers 500
\* "File not found after download" if it does not; that answer is never the
\* answer to an extractor failure.
C4_NoPartialState == [](C4_Outcome) /\ [][C4_ExistenceStep]_vars

\* one download streamed its file and another found none after a reported
\* success
C4_Witness ==
    \E r1, r2 \in Requests :
        /\ IsDownload(r1) /\ Done(r1) /\ req[r1].resp.kind = "file"
        /\ IsDownload(r2) /\ Done(r2) /\ ExtractorSucceeded(r2)
        /\ req[r2].resp = NotFoundResponse

\* the name the extractor derives from the template and its metadata
DerivedName(r) ==
    FillTemplate(req[r].opts.outtmpl, req[r].ydl.info.title, req[r].ydl.info.ext)

\* C5 as amended: after a successful extractor call, a non-empty
\* requested_downloads list gives the first entry's filepath verbatim; an
\* empty list gives no path: the request ends 500 with the index error's
\* text; without the list the path is the derived name with its extension
\* rewritten to ".mp4" when it is not ".mp4", and it is so before the
\* existence check.
C5_ResolvedPath ==
    \A r \in Requests :
        (IsDownload(r) /\ ExtractorSucceeded(r)) =>
            LET info == req[r].ydl.info
            IN  IF info.has_rd
                THEN IF Len(info.requested_downloads) > 0
                     THEN /\ req[r].pc \in {"resolved", "sending", "done"}
                          /\ req[r].filename = Str(info.requested_downloads[1].filepath)
                     ELSE /\ Done(r)
                          /\ req[r].filename = ""
                          /\ req[r].resp = JsonError(500, "list index out of range")
                ELSE /\ req[r].pc \in {"resolved", "sending", "done"}
                     /\ req[r].filename =
                           Str(FillTemplate(req[r].opts.outtmpl, info.title, MP4))
                     /\ info.ext = MP4 => req[r].filename = Str(DerivedName(r))

\* C5 as written: with a requested_downloads list of any length, the empty
\* one included, the resolved path is the first entry's filepath; otherwise
\* it is the derived name with the extension rewritten to ".mp4".
C5_Original ==
    \A r \in Requests :
        (IsDownload(r) /\ ExtractorSucceeded(r)) =>
            LET info == req[r].ydl.info
            IN  IF info.has_rd
                THEN /\ req[r].pc \in {"resolved", "sending", "done"}
                     /\ Len(info.requested_downloads) > 0
                     /\ req[r].filename = Str(info.requested_downloads[1].filepath)
                ELSE /\ req[r].pc \in {"resolved", "sending", "done"}
                     /\ req[r].filename =
                           Str(FillTemplate(req[r].opts.outtmpl, info.title, MP4))

\* a ".mkv" name was derived and stands rewritten before the existence check,
\* while another request took the path of a list entry that differs from it
C5_Witness ==
    \E r1, r2 \in Requests :
        /\ IsDownload(r1) /\ ExtractorSucceeded(r1) /\ ~req[r1].ydl.info.has_rd
        /\ req[r1].ydl.info.ext = <<"m", "k", "v">>
        /\ req[r1].pc = "resolved"
        /\ req[r1].filename = "downloads/a_1.mp4"
        /\ IsDownload(r2) /\ ExtractorSucceeded(r2)
        /\ Len(req[r2].ydl.info.requested_downloads) = 1
        /\ req[r2].filename = "downloads/a_1_1.mkv"

\* the texts of the form minutes:seconds
MinSecTexts == {Str(Digits(m) \o <<":">> \o ZeroPad2(sec)) :
                   m \in 0..(MaxDuration \div 60), sec \in 0..59}

\* C6: for every successful info request, whatever subset of the five fields
\* the extractor returns, the answer is 200 with title defaulting to
\* "Unknown Title", author to "Unknown Author", thumbnail to "", webpage_url
\* the extractor's value or else the input url, and duration a text of the
\* form minutes:seconds.
C6_InfoProjection ==
    \A r \in Requests :
        (IsInfo(r) /\ ExtractorSucceeded(r)) =>
            LET info == req[r].ydl.info
                data == req[r].resp.data
                Has(k) == k \in DOMAIN info
            IN  /\ req[r].resp.kind = "json" /\ req[r].resp.status = 200
                /\ data.title = IF Has("title") THEN info["title"].v ELSE "Unknown Title"
                /\ data.author = IF Has("uploader") THEN info["uploader"].v
                                 ELSE "Unknown Author"
                /\ data.thumbnail = IF Has("thumbnail") THEN info["thumbnail"].v ELSE ""
                /\ data.webpage_url = IF Has("webpage_url") THEN info["webpage_url"].v
                                      ELSE req[r].request.v["url"].v
                /\ data.duration \in MinSecTexts

\* C8: every request to either endpoint ends in one of the handler's own
\* responses (200, or 400/500 with an error body); no exception leaves the
\* handler.
C8_NoPropagation ==
    \A r \in Requests :
        Done(r) =>
            \/ req[r].resp.kind \in {"json", "file"} /\ req[r].resp.status = 200
            \/ req[r].resp.kind = "error" /\ req[r].resp.status \in {400, 500}

\* C9: the paths two download requests' extractor calls write to are distinct
\* whenever the requests' timestamps differ or the titles differ.
C9_DistinctPaths ==
    \A r1, r2 \in Requests :
        (/\ r1 # r2
         /\ IsDownload(r1) /\ ExtractorSucceeded(r1)
         /\ IsDownload(r2) /\ ExtractorSucceeded(r2)
         /\ \/ req[r1].timestamp # req[r2].timestamp
            \/ req[r1].ydl.info.title # req[r2].ydl.info.title)
        => req[r1].ydl.target # req[r2].ydl.target

\* two downloads of the same second with different titles, and both wrote
C9_Witness ==
    \E r1, r2 \in Requests :
        /\ r1 # r2
        /\ IsDownload(r1) /\ ExtractorSucceeded(r1) /\ req[r1].ydl.wrote
        /\ IsDownload(r2) /\ ExtractorSucceeded(r2) /\ req[r2].ydl.wrote
        /\ req[r1].timestamp = req[r2].timestamp
        /\ req[r1].ydl.info.title # req[r2].ydl.info.title
        /\ req[r1].ydl.info.ext = req[r2].ydl.info.ext

\* the request's own extractor call left a file at the path it resolved
WroteOwnFile(r) == req[r].ydl.wrote /\ req[r].ydl.target = req[r].filename

\* C10: the outcome of a download request depends only on what its own
\* extractor call wrote: it finds a file at the existence check exactly when
\* its own call left one at the resolved path.
C10_NoCrossRequest ==
    \A r \in Requests :
        (IsDownload(r) /\ ExtractorSucceeded(r)) =>
            /\ req[r].resp = NotFoundResponse => ~WroteOwnFile(r)
            /\ (req[r].pc = "sending" \/ req[r].resp.kind = "file") => WroteOwnFile(r)

====
